---------------------------- MODULE Spec2Model ----------------------------
(***************************************************************************)
(* A model of the Stylus workshop NFT: the raster primitives of art.rs,    *)
(* the stored-block zlib and PNG encoder of utils.rs, the NFT generator,   *)
(* and the ERC-721 bookkeeping of erc712.rs.                               *)
(*                                                                         *)
(* Every entry point is a small program: Init draws its inputs from        *)
(* bounded sets and the actions execute its code, one action per loop      *)
(* iteration or handler.  The variable prog names the entry point that a   *)
(* behaviour executes and pc the position in it.                           *)
(***************************************************************************)
EXTENDS Integers, Sequences, FiniteSets, TLC

VARIABLES
  prog,      \* the entry point executed: "line", "ellipse", "zlib", ...
  pc,        \* the position in the code
  R, C,      \* the const generics of Image<R, C>: rows and columns
  pixels,    \* Image::pixels, pixels[y][x], 0-based
  todo,      \* the draw calls the caller still has to issue, in order
  args,      \* the arguments of the draw call being executed
  lv,        \* the local variables of the draw call being executed
  drawn,     \* the offsets from the center draw_ellipse has asked `draw` to paint
  input,     \* zlib_format: the `data` argument as passed by the caller (a Vec)
  data,      \* zlib_format: the `data` slice, shrinking as chunks are split off (a Vec)
  checksum,  \* zlib_format: the Adler-32 of the input
  out,       \* the output vector of zlib_format / make_png (a Vec)
  address,   \* generate_nft: the contract address (20 bytes)
  token_id,  \* generate_nft: the token id
  hasher,    \* generate_nft: the state of its FnvHasher (8 bytes, least significant first)
  fg_color,  \* generate_nft: the foreground color drawn from the Rng
  rng_of,    \* the colors the Rng gave for each seed used so far
  calls,     \* the generate_nft/make_png calls completed so far
  owners,    \* Erc712::owners
  approved,  \* Erc712::approved
  balance,   \* Erc712::balance
  approved_for_all, \* Erc712::approved_for_all
  last       \* the last external ERC-721 call and its result

gridVars == <<R, C, pixels>>
drawVars == <<todo, args, lv, drawn>>
zlibVars == <<input, data, checksum, out>>
nftVars  == <<address, token_id, hasher, fg_color, rng_of, calls>>
ercVars  == <<owners, approved, balance, approved_for_all, last>>
vars == <<prog, pc, gridVars, drawVars, zlibVars, nftVars, ercVars>>

(***************************************************************************)
(* Bounds of the model.                                                    *)
(***************************************************************************)
MaxDim == 3        \* line and PNG grids have 1..MaxDim rows and columns
MaxRadius == 4     \* ellipse radii a, b range over 0..MaxRadius
MaxSmallLen == 3   \* zlib inputs: every sequence of sample bytes this long
MaxBlocks == 2     \* zlib inputs: lengths around 1..MaxBlocks full blocks
MaxTokenId == 1    \* generate_nft is called for the token ids 0..MaxTokenId
MaxCalls == 2      \* the ERC-721 contract receives at most MaxCalls calls

(***************************************************************************)
(* Small helpers.                                                          *)
(***************************************************************************)
Max(m, n) == IF m >= n THEN m ELSE n
Min(m, n) == IF m <= n THEN m ELSE n
\* usize::abs_diff
AbsDiff(m, n) == IF m >= n THEN m - n ELSE n - m

(***************************************************************************)
(* utils.rs: Color.                                                        *)
(***************************************************************************)
Color(r, g, b) == [red |-> r, green |-> g, blue |-> b]

\* Color::from_hex: each shift is narrowed to u8
from_hex(value) ==
  Color((value \div 65536) % 256, (value \div 256) % 256, value % 256)

\* Color::to_hex
to_hex(c) == c.red * 65536 + c.green * 256 + c.blue

\* generate_nft's bg_color, Color::from_hex(0xe3066e)
BgColor == from_hex(14878318)

\* a foreground color for the stand-alone draw calls, distinct from BgColor
InkColor == Color(18, 52, 86)

(***************************************************************************)
(* art.rs: Image and Cell.                                                 *)
(***************************************************************************)
Cell(x, y) == [x |-> x, y |-> y]

\* Image::new: R rows of C cells, all bg_color
NewPixels(rows, cols, bg_color) ==
  [y \in 0..(rows - 1) |-> [x \in 0..(cols - 1) |-> bg_color]]

\* the bounds check of the indexing expression self.pixels[y][x]
InGrid(x, y) == x >= 0 /\ x < C /\ y >= 0 /\ y < R

\* self.pixels[y][x] = color, for an index that is in bounds
SetPixel(px, x, y, color) == [px EXCEPT ![y][x] = color]

\* the cells of the grid that hold `color`
CellsOf(color) ==
  {c \in [x : 0..(C - 1), y : 0..(R - 1)] : pixels[c.y][c.x] = color}

NoArgs == [fn |-> "none"]
NoLocals == [fn |-> "none"]

(***************************************************************************)
(* art.rs: draw_line.                                                      *)
(***************************************************************************)
THICK_LINES == FALSE

\* usize::saturating_add_signed; the saturation at usize::MAX lies beyond
\* every coordinate the model enumerates
SaturatingAddSigned(x, s) == IF x + s < 0 THEN 0 ELSE x + s

LineCall(start, end, color) ==
  [fn |-> "line", start |-> start, end |-> end, color |-> color]

\* lines 40-47: the locals, and the first indexed write, which panics when
\* the start cell is out of bounds
LineBegin ==
  /\ pc = "call"
  /\ args.fn = "line"
  /\ LET start == args.start
         end == args.end
         dx == AbsDiff(end.x, start.x)
         dy == -AbsDiff(end.y, start.y)
         sx == IF end.x > start.x THEN 1 ELSE -1
         sy == IF end.y > start.y THEN 1 ELSE -1
     IN /\ lv' = [fn |-> "line", dx |-> dx, dy |-> dy, sx |-> sx, sy |-> sy,
                  error |-> dx + dy, x |-> start.x, y |-> start.y]
        /\ IF InGrid(start.x, start.y)
             THEN /\ pixels' = SetPixel(pixels, start.x, start.y, args.color)
                  /\ pc' = "line_loop"
             ELSE /\ pixels' = pixels
                  /\ pc' = "panic"
  /\ UNCHANGED <<prog, R, C, todo, args, drawn, zlibVars, nftVars, ercVars>>

\* the cells one loop iteration writes, in order (lines 55, 63, 67)
LineWrites(x1, y0, y1, stepx, stepy) ==
  (IF THICK_LINES /\ stepx THEN <<Cell(x1, y0)>> ELSE <<>>)
  \o (IF THICK_LINES /\ stepy THEN <<Cell(x1, y1)>> ELSE <<>>)
  \o (IF ~THICK_LINES THEN <<Cell(x1, y1)>> ELSE <<>>)

\* the writes of `cells` in order, up to the first index out of bounds:
\* the indexing panics there, the earlier writes having happened
RECURSIVE WriteCells(_, _, _)
WriteCells(px, cells, color) ==
  IF cells = <<>> THEN [pixels |-> px, ok |-> TRUE]
  ELSE IF ~InGrid(Head(cells).x, Head(cells).y)
         THEN [pixels |-> px, ok |-> FALSE]
         ELSE WriteCells(SetPixel(px, Head(cells).x, Head(cells).y, color),
                         Tail(cells), color)

\* LineAdvance with the y branch adding dy where line 60 adds dx: the
\* properties of draw_line have to tell the two apart
LineAdvanceWrongError(l) ==
  LET error2 == l.error * 2
      stepx == error2 >= l.dy
      stepy == error2 <= l.dx
      x1 == IF stepx THEN SaturatingAddSigned(l.x, l.sx) ELSE l.x
      y1 == IF stepy THEN SaturatingAddSigned(l.y, l.sy) ELSE l.y
      e1 == IF stepx THEN l.error + l.dy ELSE l.error
      e2 == IF stepy THEN e1 + l.dy ELSE e1
  IN [stepx |-> stepx, stepy |-> stepy, x |-> x1, y |-> y1, error |-> e2]

\* lines 49-65: what one iteration does to x, y and error
LineAdvance(l) ==
  LET error2 == l.error * 2
      stepx == error2 >= l.dy
      stepy == error2 <= l.dx
      x1 == IF stepx THEN SaturatingAddSigned(l.x, l.sx) ELSE l.x
      y1 == IF stepy THEN SaturatingAddSigned(l.y, l.sy) ELSE l.y
      e1 == IF stepx THEN l.error + l.dy ELSE l.error
      e2 == IF stepy THEN e1 + l.dx ELSE e1
  IN [stepx |-> stepx, stepy |-> stepy, x |-> x1, y |-> y1, error |-> e2]

\* lines 48-69: one iteration of the while loop
LineStep ==
  /\ pc = "line_loop"
  /\ lv.x /= args.end.x \/ lv.y /= args.end.y
  /\ LET n == LineAdvance(lv)
         \* the debug_assert!s of lines 51 and 59 fail
         assert_fails == (n.stepx /\ lv.x = args.end.x) \/ (n.stepy /\ lv.y = args.end.y)
         w == WriteCells(pixels, LineWrites(n.x, lv.y, n.y, n.stepx, n.stepy),
                         args.color)
     IN \* a failed debug_assert! panics in a build with debug assertions
        \* and is no check at all in a release build
        \E debug_panic \in (IF assert_fails THEN BOOLEAN ELSE {FALSE}) :
          IF debug_panic
            THEN pc' = "panic" /\ UNCHANGED <<lv, pixels>>
            ELSE /\ lv' = [lv EXCEPT !.x = n.x, !.y = n.y, !.error = n.error]
                 /\ pixels' = w.pixels
                 /\ pc' = IF w.ok THEN "line_loop" ELSE "panic"
  /\ UNCHANGED <<prog, R, C, todo, args, drawn, zlibVars, nftVars, ercVars>>

\* line 48: the loop condition fails, draw_line returns
LineReturn ==
  /\ pc = "line_loop"
  /\ lv.x = args.end.x /\ lv.y = args.end.y
  /\ pc' = "ret"
  /\ UNCHANGED <<prog, gridVars, drawVars, zlibVars, nftVars, ercVars>>

(***************************************************************************)
(* art.rs: draw_ellipse.                                                   *)
(***************************************************************************)
Some(v) == [some |-> TRUE, val |-> v]
None == [some |-> FALSE, val |-> 0]

\* A usize is held by the integer congruent to it modulo usize::MAX + 1
\* that lies nearest zero: 0, 1, 2, ... stand for themselves and -1, -2, ...
\* for usize::MAX, usize::MAX - 1, ...  The radii added and subtracted are
\* far below half the width.

\* usize::checked_sub: None when the difference would be negative
checked_sub(m, n) == IF m >= 0 /\ n > m THEN None ELSE Some(m - n)

\* checked_add with the sum taken modulo usize::MAX + 1, as wrapping_add
\* takes it
checked_add_wrapping(m, n) == Some(m + n)

\* usize::checked_add: None when the sum would pass usize::MAX
checked_add(m, n) == IF m < 0 /\ m + n >= 0 THEN None ELSE Some(m + n)

\* the comparison `v < bound` of two usize, bound a dimension of the grid
UsizeBelow(v, bound) == v >= 0 /\ v < bound

\* the `draw` closure of lines 90-96: the cell it indexes when both
\* coordinates are Some and pass its comparisons with C and R, and no cell
\* otherwise
Draw(x, y) ==
  IF x.some /\ y.some /\ UsizeBelow(x.val, C) /\ UsizeBelow(y.val, R)
    THEN <<Cell(x.val, y.val)>>
    ELSE <<>>

EllipseCall(center, a, b, draw_quadrants, color) ==
  [fn |-> "ellipse", center |-> center, a |-> a, b |-> b,
   draw_quadrants |-> draw_quadrants, color |-> color]

\* lines 84-88
EllipseBegin ==
  /\ pc = "call"
  /\ args.fn = "ellipse"
  /\ LET x == args.a
         dx == (1 - 2 * x) * (args.b * args.b)
         dy == x * x
     IN lv' = [fn |-> "ellipse", x |-> x, y |-> 0, dx |-> dx, dy |-> dy,
               error |-> dx + dy]
  /\ pc' = "ellipse_loop"
  /\ UNCHANGED <<prog, gridVars, todo, args, drawn, zlibVars, nftVars, ercVars>>

\* lines 98-113: the cells the four quadrant draws of one iteration index,
\* I to IV
QuadrantDraws(center, x, y, q) ==
  (IF q[1] THEN Draw(checked_add(center.x, x), checked_sub(center.y, y)) ELSE <<>>)
  \o (IF q[2] THEN Draw(checked_sub(center.x, x), checked_sub(center.y, y)) ELSE <<>>)
  \o (IF q[3] THEN Draw(checked_sub(center.x, x), checked_add(center.y, y)) ELSE <<>>)
  \o (IF q[4] THEN Draw(checked_add(center.x, x), checked_add(center.y, y)) ELSE <<>>)

\* the offsets from the center of the cells those draws ask for, before the
\* checked arithmetic and the bounds check drop any
QuadrantOffsets(x, y, q) ==
  (IF q[1] THEN {<<x, -y>>} ELSE {}) \cup (IF q[2] THEN {<<-x, -y>>} ELSE {})
  \cup (IF q[3] THEN {<<-x, y>>} ELSE {}) \cup (IF q[4] THEN {<<x, y>>} ELSE {})

\* EllipseUpdate with line 121 adding dx as it was before line 120 raised it
EllipseUpdateStaleDx(l, a, b) ==
  LET error2 == l.error * 2
      stepx == error2 >= l.dx
      brk == stepx /\ l.x = 0
      x1 == IF stepx THEN l.x - 1 ELSE l.x
      dx1 == IF stepx THEN l.dx + 2 * b * b ELSE l.dx
      e1 == IF stepx THEN l.error + l.dx ELSE l.error
      stepy == error2 <= l.dy
      y1 == IF stepy THEN l.y + 1 ELSE l.y
      dy1 == IF stepy THEN l.dy + 2 * a * a ELSE l.dy
      e2 == IF stepy THEN e1 + dy1 ELSE e1
  IN IF brk THEN [brk |-> TRUE, lv |-> l]
     ELSE [brk |-> FALSE,
           lv |-> [l EXCEPT !.x = x1, !.y = y1, !.dx = dx1, !.dy = dy1, !.error = e2]]

\* lines 114-127: the update of x, y, dx, dy and error after the draws;
\* brk when the loop breaks at x = 0
EllipseUpdate(l, a, b) ==
  LET error2 == l.error * 2
      stepx == error2 >= l.dx
      brk == stepx /\ l.x = 0
      x1 == IF stepx THEN l.x - 1 ELSE l.x
      dx1 == IF stepx THEN l.dx + 2 * b * b ELSE l.dx
      e1 == IF stepx THEN l.error + dx1 ELSE l.error
      stepy == error2 <= l.dy
      y1 == IF stepy THEN l.y + 1 ELSE l.y
      dy1 == IF stepy THEN l.dy + 2 * a * a ELSE l.dy
      e2 == IF stepy THEN e1 + dy1 ELSE e1
  IN IF brk THEN [brk |-> TRUE, lv |-> l]
     ELSE [brk |-> FALSE,
           lv |-> [l EXCEPT !.x = x1, !.y = y1, !.dx = dx1, !.dy = dy1, !.error = e2]]

\* lines 97-128: one iteration of the main loop
EllipseStep ==
  /\ pc = "ellipse_loop"
  /\ LET u == EllipseUpdate(lv, args.a, args.b)
         \* self.pixels[y][x] = color of line 94 panics on an index out of
         \* bounds
         w == WriteCells(pixels, QuadrantDraws(args.center, lv.x, lv.y,
                                               args.draw_quadrants), args.color)
     IN /\ pixels' = w.pixels
        /\ drawn' = drawn \cup QuadrantOffsets(lv.x, lv.y, args.draw_quadrants)
        /\ IF w.ok
             THEN /\ lv' = u.lv
                  /\ pc' = IF u.brk THEN "ellipse_flat" ELSE "ellipse_loop"
             ELSE pc' = "panic" /\ UNCHANGED lv
  /\ UNCHANGED <<prog, R, C, todo, args, zlibVars, nftVars, ercVars>>

\* lines 132-137: the cells the draws of one iteration of the flat-ellipse
\* loop index
FlatDraws(center, y, q) ==
  (IF q[1] \/ q[2] THEN Draw(Some(center.x), checked_sub(center.y, y)) ELSE <<>>)
  \o (IF q[3] \/ q[4] THEN Draw(Some(center.x), checked_add(center.y, y)) ELSE <<>>)

FlatOffsets(y, q) ==
  (IF q[1] \/ q[2] THEN {<<0, -y>>} ELSE {}) \cup (IF q[3] \/ q[4] THEN {<<0, y>>} ELSE {})

\* EllipseFlat without the y += 1 of line 131: the loop draws the cells of
\* row y + 1 and leaves y as it was
EllipseFlatKeepsY ==
  /\ pc = "ellipse_flat"
  /\ IF lv.y < args.b
       THEN LET y1 == lv.y + 1
                w == WriteCells(pixels, FlatDraws(args.center, y1, args.draw_quadrants),
                                args.color)
            IN /\ lv' = lv
               /\ pixels' = w.pixels
               /\ drawn' = drawn \cup FlatOffsets(y1, args.draw_quadrants)
               /\ pc' = IF w.ok THEN "ellipse_flat" ELSE "panic"
       ELSE /\ pc' = "ret"
            /\ UNCHANGED <<lv, pixels, drawn>>
  /\ UNCHANGED <<prog, R, C, todo, args, zlibVars, nftVars, ercVars>>

\* lines 130-139: the head of `while y < b`: one more iteration, or the
\* return of draw_ellipse
EllipseFlat ==
  /\ pc = "ellipse_flat"
  /\ IF lv.y < args.b
       THEN LET y1 == lv.y + 1
                w == WriteCells(pixels, FlatDraws(args.center, y1, args.draw_quadrants),
                                args.color)
            IN /\ lv' = [lv EXCEPT !.y = y1]
               /\ pixels' = w.pixels
               /\ drawn' = drawn \cup FlatOffsets(y1, args.draw_quadrants)
               /\ pc' = IF w.ok THEN "ellipse_flat" ELSE "panic"
       ELSE /\ pc' = "ret"
            /\ UNCHANGED <<lv, pixels, drawn>>
  /\ UNCHANGED <<prog, R, C, todo, args, zlibVars, nftVars, ercVars>>

(***************************************************************************)
(* Bytes and fixed-width integers.  A u32 is held as the pair <<hi, lo>>   *)
(* of its 16-bit halves, so that every operation stays in the integers     *)
(* the checker computes with.                                              *)
(***************************************************************************)
Byte == 0..255

\* The variables that hold a byte vector or slice hold it in pages of 256
\* bytes, <<page, page, ..>> with only the last page short: Vec(s) is the
\* vector of the bytes s and Bytes(v) the bytes of the vector v.
Vec(s) ==
  LET k == (Len(s) + 255) \div 256
  IN SubSeq([p \in 1..k |-> SubSeq(s, 256 * (p - 1) + 1, Min(256 * p, Len(s)))], 1, k)

Bytes(v) ==
  IF v = <<>> THEN <<>>
  ELSE LET n == 256 * (Len(v) - 1) + Len(v[Len(v)])
       IN SubSeq([i \in 1..n |-> v[((i - 1) \div 256) + 1][((i - 1) % 256) + 1]], 1, n)

\* usize as u32, for the lengths of the model
U32(n) == <<n \div 65536, n % 65536>>

\* u16::to_le_bytes
U16LeBytes(v) == <<v % 256, v \div 256>>

\* u32::to_be_bytes
U32BeBytes(w) == <<w[1] \div 256, w[1] % 256, w[2] \div 256, w[2] % 256>>

\* the bitwise exclusive or of two naturals below 2^bits
RECURSIVE XorBits(_, _, _)
XorBits(m, n, bits) ==
  IF bits = 0 THEN 0
  ELSE (IF m % 2 = n % 2 THEN 0 ELSE 1) + 2 * XorBits(m \div 2, n \div 2, bits - 1)

XorTable == [m \in Byte |-> [n \in Byte |-> XorBits(m, n, 8)]]
Xor8(m, n) == XorTable[m][n]
Xor16(m, n) == Xor8(m \div 256, n \div 256) * 256 + Xor8(m % 256, n % 256)
Xor32(v, w) == <<Xor16(v[1], w[1]), Xor16(v[2], w[2])>>

(***************************************************************************)
(* The adler crate: Adler-32 (RFC 1950).  a starts at 1 and b at 0; each   *)
(* byte does a = (a + byte) mod 65521, b = (b + a) mod 65521; the checksum *)
(* is b * 65536 + a.  The bytes lo..hi are folded in order, by halves.     *)
(***************************************************************************)
AdlerMod == 65521

RECURSIVE AdlerRange(_, _, _, _)
AdlerRange(s, st, lo, hi) ==
  IF lo > hi THEN st
  ELSE IF lo = hi
    THEN LET a == (st[2] + s[lo]) % AdlerMod IN <<(st[1] + a) % AdlerMod, a>>
    ELSE LET mid == (lo + hi) \div 2
             left == AdlerRange(s, st, lo, mid)
         IN IF left[1] >= 0 THEN AdlerRange(s, left, mid + 1, hi) ELSE left

\* adler::adler32_slice, the u32 as <<b, a>>
adler32_slice(s) == AdlerRange(s, <<0, 1>>, 1, Len(s))

(***************************************************************************)
(* utils.rs: zlib_format.                                                  *)
(***************************************************************************)
\* the largest stored block: the 65535 of line 44
BlockMax == 65535

\* hex!("789c030000000001"), line 37
EmptyZlibStream == <<120, 156, 3, 0, 0, 0, 0, 1>>

\* vec![0x08, 0x1d], line 39
ZlibHeader == <<8, 29>>

\* ChunkLen with a block of one byte more than the u16 length field holds
ChunkLenPastU16(n) == Min(n, BlockMax + 1)

\* line 44: the length of the chunk split off a slice of length n
ChunkLen(n) == Min(n, BlockMax)

\* StoredBlock with the final-block bit set in every block
StoredBlockAlwaysFinal(chunk, rest) ==
  LET len == Len(chunk) % 65536
      nlen == 65535 - len
  IN <<1>> \o U16LeBytes(len) \o U16LeBytes(nlen) \o chunk

\* lines 45-57: what one iteration pushes for `chunk`, `rest` being what is
\* left of data after the split: the control byte, chunk.len() as u16 and
\* !chunk.len() as u16, both little-endian, then the chunk
StoredBlock(chunk, rest) ==
  LET last_block == IF rest = <<>> THEN 1 ELSE 0
      len == Len(chunk) % 65536
      nlen == 65535 - len
  IN <<last_block>> \o U16LeBytes(len) \o U16LeBytes(nlen) \o chunk

\* lines 36-40
ZlibBegin ==
  /\ pc = "call_zlib"
  /\ IF data = <<>>
       THEN out' = Vec(EmptyZlibStream) /\ checksum' = checksum /\ pc' = "ret"
       ELSE /\ out' = Vec(ZlibHeader)
            /\ checksum' = adler32_slice(Bytes(data))
            /\ pc' = "zlib_loop"
  /\ UNCHANGED <<prog, gridVars, drawVars, input, data, nftVars, ercVars>>

\* lines 42-58: one iteration of the chunking loop
ZlibChunk ==
  /\ pc = "zlib_loop"
  /\ data /= <<>>
  /\ LET d == Bytes(data)
         n == ChunkLen(Len(d))
         chunk == SubSeq(d, 1, n)
         rest == SubSeq(d, n + 1, Len(d))
     IN /\ data' = Vec(rest)
        /\ out' = Vec(Bytes(out) \o StoredBlock(chunk, rest))
  /\ UNCHANGED <<prog, pc, gridVars, drawVars, input, checksum, nftVars, ercVars>>

\* lines 59-60
ZlibReturn ==
  /\ pc = "zlib_loop"
  /\ data = <<>>
  /\ out' = Vec(Bytes(out) \o U32BeBytes(checksum))
  /\ pc' = "ret"
  /\ UNCHANGED <<prog, gridVars, drawVars, input, data, checksum, nftVars, ercVars>>

\* the blocks the loop of lines 42-58 pushes for `d`
RECURSIVE StoredBlocks(_)
StoredBlocks(d) ==
  IF d = <<>> THEN <<>>
  ELSE LET n == ChunkLen(Len(d))
           rest == SubSeq(d, n + 1, Len(d))
       IN StoredBlock(SubSeq(d, 1, n), rest) \o StoredBlocks(rest)

\* zlib_format as a function of its argument, for the callers of it
zlib_format(d) ==
  IF d = <<>> THEN EmptyZlibStream
  ELSE ZlibHeader \o StoredBlocks(d) \o U32BeBytes(adler32_slice(d))

(***************************************************************************)
(* The crc crate: CRC-32/ISO-HDLC.  Reflected polynomial 0xEDB88320,       *)
(* initial value and final exclusive or 0xFFFFFFFF, one table lookup a     *)
(* byte.                                                                   *)
(***************************************************************************)
CrcPoly == <<60856, 33568>>      \* 0xEDB8, 0x8320
AllOnes32 == <<65535, 65535>>    \* 0xFFFFFFFF

Shr1(w) == <<w[1] \div 2, (w[1] % 2) * 32768 + w[2] \div 2>>
Shr8(w) == <<w[1] \div 256, (w[1] % 256) * 256 + w[2] \div 256>>

RECURSIVE CrcBits(_, _)
CrcBits(w, k) ==
  IF k = 0 THEN w
  ELSE CrcBits(IF w[2] % 2 = 1 THEN Xor32(Shr1(w), CrcPoly) ELSE Shr1(w), k - 1)

CrcTable == [n \in Byte |-> CrcBits(<<0, n>>, 8)]

CrcUpdate(crc, byte) == Xor32(CrcTable[Xor8(crc[2] % 256, byte)], Shr8(crc))

RECURSIVE CrcRange(_, _, _, _)
CrcRange(s, crc, lo, hi) ==
  IF lo > hi THEN crc
  ELSE IF lo = hi THEN CrcUpdate(crc, s[lo])
    ELSE LET mid == (lo + hi) \div 2
             left == CrcRange(s, crc, lo, mid)
         IN IF left[1] >= 0 THEN CrcRange(s, left, mid + 1, hi) ELSE left

\* crc::Crc::<u32>::new(&crc::CRC_32_ISO_HDLC).checksum
crc_checksum(s) == Xor32(CrcRange(s, AllOnes32, 1, Len(s)), AllOnes32)

(***************************************************************************)
(* utils.rs: uncompressed_pixel_data and make_png.                         *)
(***************************************************************************)
\* lines 68-72: the red, green and blue bytes of the pixels x.. of a row
RECURSIVE RowBytes(_, _, _)
RowBytes(row, x, cols) ==
  IF x >= cols THEN <<>>
  ELSE <<row[x].red, row[x].green, row[x].blue>> \o RowBytes(row, x + 1, cols)

\* lines 66-73: for the rows y.., the filter byte 0 and the row's pixels
RECURSIVE RowsBytes(_, _, _, _)
RowsBytes(px, y, rows, cols) ==
  IF y >= rows THEN <<>>
  ELSE <<0>> \o RowBytes(px[y], 0, cols) \o RowsBytes(px, y + 1, rows, cols)

uncompressed_pixel_data(px, rows, cols) == RowsBytes(px, 0, rows, cols)

\* hex!("89504E470D0A1A0A"), line 80
PngSignature == <<137, 80, 78, 71, 13, 10, 26, 10>>

\* b"IHDR", b"IDAT", b"IEND"
IHDR == <<73, 72, 68, 82>>
IDAT == <<73, 68, 65, 84>>
IEND == <<73, 69, 78, 68>>

\* CrcInput with start taken before the length field was pushed
CrcInputWithLength(name, chunk) == U32BeBytes(U32(Len(chunk))) \o name \o chunk

\* the bytes the CRC of a chunk is computed over: &out[start..], where start
\* is out.len() after the length field was pushed (lines 83-87)
CrcInput(name, chunk) == name \o chunk

\* the append_chunk closure, lines 81-88
append_chunk(o, name, chunk) ==
  o \o U32BeBytes(U32(Len(chunk))) \o name \o chunk
    \o U32BeBytes(crc_checksum(CrcInput(name, chunk)))

\* IhdrPayload with the height written first
IhdrPayloadRowsFirst(rows, cols) ==
  U32BeBytes(U32(rows)) \o U32BeBytes(U32(cols)) \o <<8, 2, 0, 0, 0>>

\* lines 89-96
IhdrPayload(rows, cols) ==
  U32BeBytes(U32(cols)) \o U32BeBytes(U32(rows)) \o <<8, 2, 0, 0, 0>>

\* lines 78-80
PngBegin ==
  /\ pc = "call_png"
  /\ lv' = [fn |-> "make_png",
            idat |-> zlib_format(uncompressed_pixel_data(pixels, R, C))]
  /\ out' = Vec(PngSignature)
  /\ pc' = "png_ihdr"
  /\ UNCHANGED <<prog, gridVars, todo, args, drawn, input, data, checksum, nftVars, ercVars>>

\* line 97
PngIhdr ==
  /\ pc = "png_ihdr"
  /\ out' = Vec(append_chunk(Bytes(out), IHDR, IhdrPayload(R, C)))
  /\ pc' = "png_idat"
  /\ UNCHANGED <<prog, gridVars, drawVars, input, data, checksum, nftVars, ercVars>>

\* line 99
PngIdat ==
  /\ pc = "png_idat"
  /\ out' = Vec(append_chunk(Bytes(out), IDAT, lv.idat))
  /\ pc' = "png_iend"
  /\ UNCHANGED <<prog, gridVars, drawVars, input, data, checksum, nftVars, ercVars>>

\* lines 100-101
PngIend ==
  /\ pc = "png_iend"
  /\ out' = Vec(append_chunk(Bytes(out), IEND, <<>>))
  /\ pc' = "png_ret"
  /\ UNCHANGED <<prog, gridVars, drawVars, input, data, checksum, nftVars, ercVars>>

\* make_png as a function of the image, for the callers of it
make_png(px, rows, cols) ==
  append_chunk(
    append_chunk(
      append_chunk(PngSignature, IHDR, IhdrPayload(rows, cols)),
      IDAT, zlib_format(uncompressed_pixel_data(px, rows, cols))),
    IEND, <<>>)

(***************************************************************************)
(* art.rs: draw_gradient.                                                  *)
(***************************************************************************)
GradientCall(start, end) == [fn |-> "gradient", start |-> start, end |-> end]

\* Blend with the sum of coordinates divided by twice the width
BlendByWidth(x, y, rows, cols) == (100 * (x + y)) \div (cols + cols)

\* line 145
Blend(x, y, rows, cols) == (100 * (x + y)) \div (cols + rows)

\* Lerp with the weights of its two arguments exchanged
LerpExchanged(s, e, blend) == ((e * blend + s * (100 - blend)) \div 100) % 256

\* line 146: the closure lerp, its result narrowed to u8
Lerp(s, e, blend) == ((s * blend + e * (100 - blend)) \div 100) % 256

\* lines 143-155: every cell is assigned once, whatever it held
draw_gradient(rows, cols, start, end) ==
  [y \in 0..(rows - 1) |-> [x \in 0..(cols - 1) |->
     LET blend == Blend(x, y, rows, cols)
     IN Color(Lerp(start.red, end.red, blend), Lerp(start.green, end.green, blend),
              Lerp(start.blue, end.blue, blend))]]

Gradient ==
  /\ pc = "call"
  /\ args.fn = "gradient"
  /\ pixels' = draw_gradient(R, C, args.start, args.end)
  /\ pc' = "ret"
  /\ UNCHANGED <<prog, R, C, drawVars, zlibVars, nftVars, ercVars>>

(***************************************************************************)
(* utils.rs: FnvHasher.  The u64 state is held as its 8 bytes, least       *)
(* significant first; wrapping_mul is the schoolbook product of the bytes  *)
(* cut to 8 bytes, that is, modulo 2^64.                                   *)
(***************************************************************************)
\* FNV_PRIME, 1099511628211 = 0x00000100000001B3
FNV_PRIME == <<179, 1, 0, 0, 0, 1, 0, 0>>

\* FnvHasher::default, 14695981039346656037 = 0xCBF29CE484222325
FnvDefault == <<37, 35, 34, 132, 228, 156, 242, 203>>

\* the sum of v[i] * w[k - i] over the bytes i..k (0-based) of column k
RECURSIVE MulColumn(_, _, _, _)
MulColumn(v, w, k, i) ==
  IF i > k THEN 0 ELSE v[i + 1] * w[k - i + 1] + MulColumn(v, w, k, i + 1)

RECURSIVE MulFrom(_, _, _, _)
MulFrom(v, w, k, carry) ==
  IF k = 8 THEN <<>>
  ELSE LET t == MulColumn(v, w, k, 0) + carry
       IN <<t % 256>> \o MulFrom(v, w, k + 1, t \div 256)

\* u64::wrapping_mul
wrapping_mul(v, w) == MulFrom(v, w, 0, 0)

\* FnvByte with the product taken before the exclusive or, as FNV-1 does
FnvByteMultiplyFirst(state, byte) ==
  LET m == wrapping_mul(state, FNV_PRIME)
  IN [m EXCEPT ![1] = Xor8(@, byte)]

\* lines 124-125: one byte of FnvHasher::update
FnvByte(state, byte) ==
  wrapping_mul([state EXCEPT ![1] = Xor8(@, byte)], FNV_PRIME)

\* FnvHasher::update, from byte i of the input on
RECURSIVE FnvFrom(_, _, _)
FnvFrom(state, bytes, i) ==
  IF i > Len(bytes) THEN state
  ELSE LET next == FnvByte(state, bytes[i])
       IN IF next[1] >= 0 THEN FnvFrom(next, bytes, i + 1) ELSE next

update(state, bytes) == FnvFrom(state, bytes, 1)

(***************************************************************************)
(* art.rs: generate_nft, and its caller token_uri of main.rs, which        *)
(* encodes the image with make_png.                                        *)
(***************************************************************************)
\* U256::as_le_slice, for the token ids of the model (below 2^31)
as_le_slice(n) ==
  [i \in 1..32 |-> IF i <= 4 THEN (n \div (256 ^ (i - 1))) % 256 ELSE 0]

\* lines 161-164: the seed handed to Rng::with_seed
Seed(addr, id) == update(update(FnvDefault, as_le_slice(id)), addr)

\* line 161: FnvHasher::new()
FnvNew ==
  /\ pc = "call_seed"
  /\ hasher' = FnvDefault
  /\ pc' = "seed_token_id"
  /\ UNCHANGED <<prog, gridVars, drawVars, zlibVars, address, token_id, fg_color,
                 rng_of, calls, ercVars>>

\* line 162: hasher.update(token_id.as_le_slice())
FnvUpdateTokenId ==
  /\ pc = "seed_token_id"
  /\ hasher' = update(hasher, as_le_slice(token_id))
  /\ pc' = "seed_address"
  /\ UNCHANGED <<prog, gridVars, drawVars, zlibVars, address, token_id, fg_color,
                 rng_of, calls, ercVars>>

\* line 163: hasher.update(address.as_slice()); hasher.output() of line 164
\* is the state as it then stands
FnvUpdateAddress ==
  /\ pc = "seed_address"
  /\ hasher' = update(hasher, address)
  /\ pc' = "ret"
  /\ UNCHANGED <<prog, gridVars, drawVars, zlibVars, address, token_id, fg_color,
                 rng_of, calls, ercVars>>

\* lines 175-178: the draw calls, in order
NftDrawCalls(fg) ==
  << GradientCall(from_hex(16711680), from_hex(255)),
     LineCall(Cell(4, 4), Cell(4, 6), fg),
     LineCall(Cell(10, 4), Cell(10, 6), fg),
     EllipseCall(Cell(7, 9), 3, 3, <<FALSE, FALSE, TRUE, TRUE>>, fg) >>

\* NftNewImage that hands out the grid of the call before
NftStaleImage == pixels

\* Image::new(bg_color), line 173
NftNewImage == NewPixels(R, C, BgColor)

\* the colors the model lets the Rng give
RngColors == {InkColor, BgColor}

\* lines 161-173.  The fastrand generator is a function of its seed that
\* the repository does not define: the first use of a seed chooses the
\* three bytes it gives, every later use of the seed gives them again.
NftBegin ==
  /\ pc = "call_nft"
  /\ LET seed == Seed(address, token_id)
     IN \E fg \in (IF seed \in DOMAIN rng_of THEN {rng_of[seed]} ELSE RngColors) :
          /\ hasher' = seed
          /\ fg_color' = fg
          /\ rng_of' = IF seed \in DOMAIN rng_of THEN rng_of ELSE rng_of @@ (seed :> fg)
          /\ todo' = NftDrawCalls(fg)
  /\ pixels' = NftNewImage
  /\ pc' = "nft_next"
  /\ UNCHANGED <<prog, R, C, args, lv, drawn, zlibVars, address, token_id, calls, ercVars>>

\* lines 175-178: the next draw call is issued
NftCall ==
  /\ prog = "nft"
  /\ pc \in {"nft_next", "ret"}
  /\ todo /= <<>>
  /\ args' = Head(todo)
  /\ todo' = Tail(todo)
  /\ lv' = NoLocals
  /\ pc' = "call"
  /\ UNCHANGED <<prog, gridVars, drawn, zlibVars, nftVars, ercVars>>

\* line 179: the image is returned; main.rs line 44 encodes it
NftReturn ==
  /\ prog = "nft"
  /\ pc = "ret"
  /\ todo = <<>>
  /\ pc' = "call_png"
  /\ UNCHANGED <<prog, gridVars, drawVars, zlibVars, nftVars, ercVars>>

\* the image and its PNG are handed to the caller
NftDone ==
  /\ prog = "nft"
  /\ pc = "png_ret"
  /\ calls' = Append(calls, [address |-> address, token_id |-> token_id,
                             pixels |-> pixels, png |-> Bytes(out)])
  /\ pc' = "idle"
  /\ UNCHANGED <<prog, gridVars, drawVars, zlibVars, address, token_id, hasher,
                 fg_color, rng_of, ercVars>>

(***************************************************************************)
(* erc712.rs: the ERC-721 bookkeeping.  An address is a number, 0 being    *)
(* the zero address.  A U256 is held by its representative nearest to      *)
(* zero: -k stands for 2^256 - k, so that wrapping addition and            *)
(* subtraction are the integers' own.                                      *)
(***************************************************************************)
Accounts == {1, 2, 3}
Addresses == {0} \cup Accounts

\* the token ids of the model; TokenIds \ Minted were never minted
TokenIds == {1, 2, 3}
Minted == {1, 2}

\* Address::has_code: account 3 is a contract, the others are not
has_code(a) == a = 3

Ok(v) == [ok |-> TRUE, val |-> v, err |-> "none"]
Err(e) == [ok |-> FALSE, val |-> 0, err |-> e]

\* lines 193-199
owner_of(id) ==
  LET owner == owners[id]
  IN IF owner = 0 THEN Err("InvalidTokenId") ELSE Ok(owner)

\* lines 188-190
balance_of(owner) == balance[owner]

\* require_authorized_to_spend without the last return: whoever gets past
\* the owner check may spend
require_authorized_any_sender(sender, from, id) ==
  LET o == owner_of(id)
      owner == o.val
  IN IF ~o.ok THEN o
     ELSE IF from /= owner THEN Err("NotOwner")
     ELSE Ok(0)

\* lines 88-112, for msg::sender() = sender
require_authorized_to_spend(sender, from, id) ==
  LET o == owner_of(id)
      owner == o.val
  IN IF ~o.ok THEN o
     ELSE IF from /= owner THEN Err("NotOwner")
     ELSE IF sender = owner THEN Ok(0)
     ELSE IF approved_for_all[owner][sender] THEN Ok(0)
     ELSE IF sender = approved[id] THEN Ok(0)
     ELSE Err("NotApproved")

\* lines 130-136: the two balance updates of transfer_impl
TransferBalances(bal, from, to) ==
  LET from_balance == [bal EXCEPT ![from] = @ - 1]
      to_balance == [from_balance EXCEPT ![from] = @ + 1]
  IN to_balance

\* a call returns `result`; the storage is `o`, `a`, `b` afterwards
Returns(fn, result, o, a, b) ==
  /\ last' = [fn |-> fn, result |-> result, seq |-> last.seq + 1]
  /\ owners' = o /\ approved' = a /\ balance' = b

\* a call returns an error or panics: the transaction reverts
Reverts(fn, result) == Returns(fn, result, owners, approved, balance)

\* lines 117-141.  from_balance.get() - 1 underflows when the balance is 0:
\* a panic where the build checks the arithmetic, and a wrap where it does
\* not
transfer_impl(fn, id, from, to) ==
  LET previous_owner == owners[id]
  IN IF previous_owner /= from THEN Reverts(fn, "NotOwner")
     ELSE \E checked \in (IF balance[from] = 0 THEN BOOLEAN ELSE {FALSE}) :
            IF checked THEN Reverts(fn, "Panic")
            ELSE Returns(fn, "Ok",
                         [owners EXCEPT ![id] = to],
                         [approved EXCEPT ![id] = 0],
                         TransferBalances(balance, from, to))

\* lines 248-255, for msg::sender() = sender
transfer_from(sender, from, to, id) ==
  /\ IF to = 0 THEN Reverts("transfer_from", "TransferToZero")
     ELSE LET auth == require_authorized_to_spend(sender, from, id)
          IN IF ~auth.ok THEN Reverts("transfer_from", auth.err)
             ELSE transfer_impl("transfer_from", id, from, to)
  /\ UNCHANGED approved_for_all

\* what a receiver contract's onERC721Received may do: return the selector
\* ERC721_TOKEN_RECEIVER_ID, return other bytes, or fail
ReceiverAnswers == {"accepted", "refused", "failed"}

\* lines 202-245: safe_transfer_from and safe_transfer_from_with_data, which
\* differ in the data handed to the receiver only.  A call into this
\* contract from inside onERC721Received is not modelled (the Stylus SDK
\* refuses reentrant calls unless the contract opts in).
safe_transfer_from(sender, from, to, id, answer) ==
  /\ IF to = 0 THEN Reverts("safe_transfer_from", "TransferToZero")
     ELSE LET auth == require_authorized_to_spend(sender, from, id)
          IN IF ~auth.ok THEN Reverts("safe_transfer_from", auth.err)
             ELSE IF has_code(to) /\ answer = "failed"
               THEN Reverts("safe_transfer_from", "ExternalCall")
             ELSE IF has_code(to) /\ answer = "refused"
               THEN Reverts("safe_transfer_from", "ReceiverRefused")
             ELSE transfer_impl("safe_transfer_from", id, from, to)
  /\ UNCHANGED approved_for_all

\* lines 258-277, for msg::sender() = sender
approve(sender, approved_addr, id) ==
  /\ LET o == owner_of(id)
         owner == o.val
     IN IF ~o.ok THEN Reverts("approve", o.err)
        ELSE IF sender /= owner /\ ~approved_for_all[owner][sender]
          THEN Reverts("approve", "NotApproved")
          ELSE Returns("approve", "Ok", owners,
                       [approved EXCEPT ![id] = approved_addr], balance)
  /\ UNCHANGED approved_for_all

\* lines 280-292, for msg::sender() = sender
set_approval_for_all(sender, operator, approved_flag) ==
  /\ approved_for_all' = [approved_for_all EXCEPT ![sender][operator] = approved_flag]
  /\ Returns("set_approval_for_all", "Ok", owners, approved, balance)

(***************************************************************************)
(* The values of the variables an entry point does not use.                *)
(***************************************************************************)
NoDraw == todo = <<>> /\ args = NoArgs /\ lv = NoLocals /\ drawn = {}
NoGrid == R = 1 /\ C = 1 /\ pixels = NewPixels(1, 1, BgColor)
NoZlib == input = <<>> /\ data = <<>> /\ checksum = 0 /\ out = <<>>
NoNft ==
  /\ address = <<>> /\ token_id = 0 /\ hasher = <<>> /\ fg_color = BgColor
  /\ rng_of = <<>> /\ calls = <<>>
NoErc ==
  /\ owners = <<>> /\ approved = <<>> /\ balance = <<>>
  /\ approved_for_all = <<>> /\ last = [fn |-> "none", result |-> "none", seq |-> 0]

(***************************************************************************)
(* draw_line on a fresh image: every grid of 1..MaxDim rows and columns,   *)
(* every start and end cell of the grid and of the row and the column just *)
(* outside it.                                                             *)
(***************************************************************************)
InitLine ==
  /\ prog = "line" /\ pc = "call"
  /\ R \in 1..MaxDim /\ C \in 1..MaxDim
  /\ pixels = NewPixels(R, C, BgColor)
  /\ \E sx \in 0..C, sy \in 0..R, ex \in 0..C, ey \in 0..R :
       args = LineCall(Cell(sx, sy), Cell(ex, ey), InkColor)
  /\ todo = <<>> /\ lv = NoLocals /\ drawn = {}
  /\ NoZlib /\ NoNft /\ NoErc

NextLine == LineBegin \/ LineStep \/ LineReturn

SpecLine == InitLine /\ [][NextLine]_vars

(***************************************************************************)
(* draw_ellipse on a fresh image: every center of the grid and of the row  *)
(* and the column just outside it, and three centers with a coordinate at  *)
(* usize::MAX; every a and b in 0..MaxRadius, every quadrant mask.         *)
(***************************************************************************)
EllipseCenters ==
  {Cell(cx, cy) : cx \in 0..C, cy \in 0..R}
  \cup {Cell(-1, -1), Cell(-1, 1), Cell(1, -1)}

InitEllipse ==
  /\ prog = "ellipse" /\ pc = "call"
  /\ R = MaxDim /\ C = MaxDim - 1
  /\ pixels = NewPixels(R, C, BgColor)
  /\ \E center \in EllipseCenters, a \in 0..MaxRadius, b \in 0..MaxRadius,
        q \in [1..4 -> BOOLEAN] :
       args = EllipseCall(center, a, b, q, InkColor)
  /\ todo = <<>> /\ lv = NoLocals /\ drawn = {}
  /\ NoZlib /\ NoNft /\ NoErc

NextEllipse == EllipseBegin \/ EllipseStep \/ EllipseFlat

SpecEllipse == InitEllipse /\ [][NextEllipse]_vars

(***************************************************************************)
(* zlib_format on its own: every sequence of at most MaxSmallLen sample    *)
(* bytes, and patterned inputs one byte short of, exactly at and one byte  *)
(* past 1..MaxBlocks full blocks.                                          *)
(***************************************************************************)
ByteSamples == {0, 18, 255}

\* a function on 1..n as a tuple
Tuple(f) == SubSeq(f, 1, Len(f))

\* a byte pattern of period 256, which no shift by a block length preserves
Pattern(n, seed) == Tuple([i \in 1..n |-> (i * 7 + seed * 13) % 256])

BigLens == {k * BlockMax + d : k \in 1..MaxBlocks, d \in {-1, 0, 1}}

ZlibInputs ==
  {Tuple(f) : f \in UNION {[1..n -> ByteSamples] : n \in 0..MaxSmallLen}}
  \cup {Pattern(n, 1) : n \in BigLens}

InitZlib ==
  /\ prog = "zlib" /\ pc = "call_zlib"
  /\ input \in {Vec(s) : s \in ZlibInputs}
  /\ data = input /\ checksum = 0 /\ out = <<>>
  /\ NoGrid /\ NoDraw /\ NoNft /\ NoErc

NextZlib == ZlibBegin \/ ZlibChunk \/ ZlibReturn

SpecZlib == InitZlib /\ [][NextZlib]_vars

(***************************************************************************)
(* A reference zlib reader (RFC 1950, RFC 1951).  It checks the header,    *)
(* reads the blocks and checks the Adler-32 trailer, which must end the    *)
(* stream.  It reads stored blocks, and of the compressed blocks the one   *)
(* that holds nothing: a fixed-Huffman block whose first code is the       *)
(* 7-bit end-of-block code 0000000.                                        *)
(***************************************************************************)
InflateFail == [ok |-> FALSE, data |-> <<>>, pos |-> 0]

RECURSIVE InflateBlocks(_, _, _)
InflateBlocks(z, pos, acc) ==
  IF pos > Len(z) THEN InflateFail
  ELSE
    LET bfinal == z[pos] % 2
        btype == (z[pos] \div 2) % 4
    IN IF btype = 0 THEN
         IF pos + 4 > Len(z) THEN InflateFail
         ELSE LET len == z[pos + 1] + 256 * z[pos + 2]
                  nlen == z[pos + 3] + 256 * z[pos + 4]
                  next == pos + 5 + len
              IN IF nlen /= 65535 - len \/ next - 1 > Len(z) THEN InflateFail
                 ELSE LET acc2 == acc \o SubSeq(z, pos + 5, next - 1)
                      IN IF bfinal = 1 THEN [ok |-> TRUE, data |-> acc2, pos |-> next]
                         ELSE InflateBlocks(z, next, acc2)
       ELSE IF btype = 1 THEN
         IF pos + 1 > Len(z) \/ z[pos] \div 8 /= 0 \/ z[pos + 1] % 4 /= 0
           THEN InflateFail
           ELSE IF bfinal = 1 THEN [ok |-> TRUE, data |-> acc, pos |-> pos + 2]
                ELSE InflateBlocks(z, pos + 2, acc)
       ELSE InflateFail

Inflate(z) ==
  IF Len(z) < 2 THEN InflateFail
  ELSE IF z[1] % 16 /= 8 \/ z[1] \div 16 > 7 \/ (z[1] * 256 + z[2]) % 31 /= 0
          \/ (z[2] \div 32) % 2 /= 0
    THEN InflateFail
    ELSE LET r == InflateBlocks(z, 3, <<>>)
         IN IF r.ok /\ r.pos + 3 = Len(z)
               /\ SubSeq(z, r.pos, r.pos + 3) = U32BeBytes(adler32_slice(r.data))
              THEN r ELSE InflateFail

(***************************************************************************)
(* make_png on its own: grids of 1..MaxDim rows and columns, filled with   *)
(* one color or with a pattern that differs from cell to cell and from     *)
(* channel to channel.                                                     *)
(***************************************************************************)
PatternGrid(rows, cols, s) ==
  [y \in 0..(rows - 1) |-> [x \in 0..(cols - 1) |->
     Color((s + 40 * y + 5 * x) % 256, (2 * s + 90 * y + 17 * x + 1) % 256,
           (3 * s + 7 * y + 130 * x + 2) % 256)]]

GridSamples(rows, cols) ==
  {NewPixels(rows, cols, c) : c \in {Color(1, 0, 2), Color(255, 255, 255)}}
  \cup {PatternGrid(rows, cols, s) : s \in {0, 200}}

InitPng ==
  /\ prog = "png" /\ pc = "call_png"
  /\ R \in 1..MaxDim /\ C \in 1..MaxDim
  /\ pixels \in GridSamples(R, C)
  /\ NoDraw /\ NoZlib /\ NoNft /\ NoErc

NextPng == PngBegin \/ PngIhdr \/ PngIdat \/ PngIend

SpecPng == InitPng /\ [][NextPng]_vars

(***************************************************************************)
(* A reference PNG reader (PNG specification, second edition).  It checks  *)
(* the signature, reads the chunks up to IEND checking each CRC, takes the *)
(* dimensions from IHDR, inflates the concatenated IDAT payloads and       *)
(* strips the filter byte of each row, which must be 0 (no filter).        *)
(***************************************************************************)
BeInt(s, pos) ==
  ((s[pos] * 256 + s[pos + 1]) * 256 + s[pos + 2]) * 256 + s[pos + 3]

\* the chunks of p from pos on, up to and including IEND; <<>> when the
\* framing is broken anywhere
RECURSIVE ReadChunks(_, _)
ReadChunks(p, pos) ==
  IF pos + 11 > Len(p) \/ p[pos] >= 128 THEN <<>>
  ELSE LET len == BeInt(p, pos)
           type == SubSeq(p, pos + 4, pos + 7)
           payload == SubSeq(p, pos + 8, pos + 7 + len)
           crc == SubSeq(p, pos + 8 + len, pos + 11 + len)
           this == [type |-> type, payload |-> payload,
                    crc_ok |-> crc = U32BeBytes(crc_checksum(type \o payload))]
       IN IF pos + 11 + len > Len(p) THEN <<>>
          ELSE IF type = IEND
            THEN (IF pos + 11 + len = Len(p) THEN <<this>> ELSE <<>>)
            ELSE LET rest == ReadChunks(p, pos + 12 + len)
                 IN IF rest = <<>> THEN <<>> ELSE <<this>> \o rest

RECURSIVE IdatOf(_)
IdatOf(chunks) ==
  IF chunks = <<>> THEN <<>>
  ELSE (IF Head(chunks).type = IDAT THEN Head(chunks).payload ELSE <<>>)
       \o IdatOf(Tail(chunks))

PngFail == [ok |-> FALSE, width |-> 0, height |-> 0, pixels |-> <<>>]

PngDecode(p) ==
  IF Len(p) < 8 \/ SubSeq(p, 1, 8) /= PngSignature THEN PngFail
  ELSE
    LET chunks == ReadChunks(p, 9)
    IN IF chunks = <<>> \/ \E i \in 1..Len(chunks) : ~chunks[i].crc_ok THEN PngFail
       ELSE IF chunks[1].type /= IHDR \/ Len(chunks[1].payload) /= 13 THEN PngFail
       ELSE
         LET h == chunks[1].payload
             width == BeInt(h, 1)
             height == BeInt(h, 5)
             z == Inflate(IdatOf(chunks))
             d == z.data
             stride == 1 + 3 * width
         IN IF SubSeq(h, 9, 13) /= <<8, 2, 0, 0, 0>> \/ width = 0 \/ height = 0
               \/ ~z.ok \/ Len(d) /= height * stride
               \/ \E y \in 0..(height - 1) : d[y * stride + 1] /= 0
              THEN PngFail
              ELSE [ok |-> TRUE, width |-> width, height |-> height,
                    pixels |-> [y \in 0..(height - 1) |-> [x \in 0..(width - 1) |->
                      Color(d[y * stride + 3 * x + 2], d[y * stride + 3 * x + 3],
                            d[y * stride + 3 * x + 4])]]]

(***************************************************************************)
(* draw_gradient on its own, on an image that holds earlier content.  On   *)
(* grids of 1..MaxDim rows and of 1 or MaxDim columns, the start and end   *)
(* colors run through every pair of values of each channel; on the         *)
(* Image<32, 32> of generate_nft they run through the colors with every    *)
(* channel 0 or 255.                                                       *)
(***************************************************************************)
StartColor(s) == Color(s, 255 - s, (s + 128) % 256)
EndColor(e) == Color(e, (e + 77) % 256, 255 - e)

ExtremeColors == {Color(r, g, b) : r \in {0, 255}, g \in {0, 255}, b \in {0, 255}}

InitGradient ==
  /\ prog = "gradient" /\ pc = "call"
  /\ \/ /\ R \in 1..MaxDim /\ C \in {1, MaxDim}
        /\ \E s \in Byte, e \in Byte :
             /\ args = GradientCall(StartColor(s), EndColor(e))
             /\ pixels = PatternGrid(R, C, s + e)
     \/ /\ R = 32 /\ C = 32
        /\ \E start \in ExtremeColors, end \in ExtremeColors :
             args = GradientCall(start, end)
        /\ pixels = PatternGrid(32, 32, 0)
  /\ todo = <<>> /\ lv = NoLocals /\ drawn = {}
  /\ NoZlib /\ NoNft /\ NoErc

NextGradient == Gradient

SpecGradient == InitGradient /\ [][NextGradient]_vars

(***************************************************************************)
(* Two calls of token_uri in a row, each for any of the sample addresses   *)
(* and any token id in 0..MaxTokenId, on the contract's Image<32, 32>.     *)
(***************************************************************************)
AddressSamples ==
  { [i \in 1..20 |-> IF i = 20 THEN 1 ELSE 0],
    [i \in 1..20 |-> (i * 11) % 256] }

\* a call of token_uri: main.rs line 43
NftStart ==
  /\ prog = "nft"
  /\ pc = "idle"
  /\ Len(calls) < 2
  /\ address' \in AddressSamples
  /\ token_id' \in 0..MaxTokenId
  /\ pc' = "call_nft"
  /\ UNCHANGED <<prog, gridVars, drawVars, zlibVars, hasher, fg_color, rng_of, calls,
                 ercVars>>

InitNft ==
  /\ prog = "nft" /\ pc = "idle"
  /\ R = 32 /\ C = 32 /\ pixels = NewPixels(32, 32, BgColor)
  /\ NoDraw /\ NoZlib /\ NoNft /\ NoErc

NextNft ==
  \/ NftStart \/ NftBegin \/ NftCall \/ NftReturn \/ NftDone
  \/ Gradient
  \/ LineBegin \/ LineStep \/ LineReturn
  \/ EllipseBegin \/ EllipseStep \/ EllipseFlat
  \/ PngBegin \/ PngIhdr \/ PngIdat \/ PngIend

SpecNft == InitNft /\ [][NextNft]_vars

(***************************************************************************)
(* The seed of generate_nft on its own, lines 161-164: addresses that are  *)
(* all zero, all 255 and of differing bytes, token ids 0..MaxTokenId and   *)
(* ids that fill one and several of the low bytes.                         *)
(***************************************************************************)
SeedAddresses ==
  AddressSamples
  \cup {[i \in 1..20 |-> (i * k + c) % 256] : k \in {0, 1, 11}, c \in {0, 1, 128, 255}}

SeedTokenIds == (0..MaxTokenId) \cup {255, 256, 2147483647}

InitSeed ==
  /\ prog = "seed" /\ pc = "call_seed"
  /\ address \in SeedAddresses
  /\ token_id \in SeedTokenIds
  /\ hasher = <<>> /\ fg_color = BgColor /\ rng_of = <<>> /\ calls = <<>>
  /\ NoGrid /\ NoDraw /\ NoZlib /\ NoErc

NextSeed == FnvNew \/ FnvUpdateTokenId \/ FnvUpdateAddress

SpecSeed == InitSeed /\ [][NextSeed]_vars

(***************************************************************************)
(* The ERC-721 contract after the mints of the tokens of Minted (mint is   *)
(* not part of erc712.rs; it leaves each token with its owner and each     *)
(* balance at the number of tokens its account owns), then at most         *)
(* MaxCalls calls of the external methods by any account.                  *)
(***************************************************************************)
InitialOwners == [t \in TokenIds |-> IF t \in Minted THEN t ELSE 0]

OwnedBy(a) == {t \in TokenIds : owners[t] = a}

InitErc ==
  /\ prog = "erc" /\ pc = "erc"
  /\ owners = InitialOwners
  /\ approved = [t \in TokenIds |-> 0]
  /\ balance = [a \in Addresses |->
       IF a = 0 THEN 0 ELSE Cardinality({t \in TokenIds : InitialOwners[t] = a})]
  /\ approved_for_all = [a \in Addresses |-> [b \in Addresses |-> FALSE]]
  /\ last = [fn |-> "none", result |-> "none", seq |-> 0]
  /\ NoGrid /\ NoDraw /\ NoZlib /\ NoNft

ErcCall == pc = "erc" /\ last.seq < MaxCalls

TransferFrom ==
  /\ ErcCall
  /\ \E sender \in Accounts, from \in Addresses, to \in Addresses, t \in TokenIds :
       transfer_from(sender, from, to, t)
  /\ UNCHANGED <<prog, pc, gridVars, drawVars, zlibVars, nftVars>>

SafeTransferFrom ==
  /\ ErcCall
  /\ \E sender \in Accounts, from \in Addresses, to \in Addresses, t \in TokenIds,
        answer \in ReceiverAnswers :
       safe_transfer_from(sender, from, to, t, answer)
  /\ UNCHANGED <<prog, pc, gridVars, drawVars, zlibVars, nftVars>>

Approve ==
  /\ ErcCall
  /\ \E sender \in Accounts, approved_addr \in Addresses, t \in TokenIds :
       approve(sender, approved_addr, t)
  /\ UNCHANGED <<prog, pc, gridVars, drawVars, zlibVars, nftVars>>

SetApprovalForAll ==
  /\ ErcCall
  /\ \E sender \in Accounts, operator \in Addresses, approved_flag \in BOOLEAN :
       set_approval_for_all(sender, operator, approved_flag)
  /\ UNCHANGED <<prog, pc, gridVars, drawVars, zlibVars, nftVars>>

NextErc == TransferFrom \/ SafeTransferFrom \/ Approve \/ SetApprovalForAll

SpecErc == InitErc /\ [][NextErc]_vars

(***************************************************************************)
(* The loops run to their end: a step that is enabled is taken.            *)
(***************************************************************************)
LiveLine == SpecLine /\ WF_vars(NextLine)

(***************************************************************************)
(* Properties of draw_line.                                                *)
(***************************************************************************)
LineInBounds ==
  /\ prog = "line"
  /\ InGrid(args.start.x, args.start.y)
  /\ InGrid(args.end.x, args.end.y)

LineLength ==
  Max(AbsDiff(args.end.x, args.start.x), AbsDiff(args.end.y, args.start.y)) + 1

LinePainted ==
  /\ pixels[args.start.y][args.start.x] = args.color
  /\ pixels[args.end.y][args.end.x] = args.color
  /\ Cardinality(CellsOf(args.color)) = LineLength

\* C1: for in-bounds start and end, draw_line returns, and when it has
\* returned the start cell and the end cell hold the color and exactly
\* max(|end.x - start.x|, |end.y - start.y|) + 1 cells of the grid do; a
\* panic is no outcome of such a call.
C1_LineExact ==
  /\ (LineInBounds /\ pc = "call") ~> (pc = "ret")
  /\ [](LineInBounds => pc /= "panic")
  /\ []((LineInBounds /\ pc = "ret") => LinePainted)

\* a returned call for a line that is neither horizontal, vertical nor
\* diagonal, and one for start = end
C1_Witness ==
  /\ LineInBounds /\ pc = "ret"
  /\ AbsDiff(args.end.x, args.start.x) = 2
  /\ AbsDiff(args.end.y, args.start.y) = 1
  /\ args.end.x < args.start.x

\* C5: an out-of-bounds start or end cell is dropped without a fault:
\* draw_line does not panic, and a call with such a cell leaves the grid
\* as it was.
C5_LineDropsOutOfBounds ==
  prog = "line" =>
    /\ pc /= "panic"
    /\ ~LineInBounds => pixels = NewPixels(R, C, BgColor)

(***************************************************************************)
(* Properties of make_png and zlib_format.                                 *)
(***************************************************************************)
PngReturned == prog = "png" /\ pc = "png_ret"

\* C2: what the reference PNG reader makes of make_png's output is the
\* grid that was encoded: it accepts the file, the width is C, the height
\* is R, and every cell has the red, green and blue of the original.
C2_PngRoundTrip ==
  PngReturned =>
    LET img == PngDecode(Bytes(out))
    IN /\ img.ok
       /\ img.width = C /\ img.height = R
       /\ img.pixels = pixels
       /\ Bytes(out) = make_png(pixels, R, C)

\* a returned make_png for a grid that is not square and whose cells differ
C2_Witness ==
  /\ PngReturned
  /\ R = 1 /\ C = MaxDim
  /\ pixels[0][0] /= pixels[0][1]
  /\ pixels[0][0].red /= pixels[0][0].blue

ZlibReturned == prog = "zlib" /\ pc = "ret"

\* C3: the reference zlib reader accepts zlib_format(data) and returns
\* exactly data, for the empty input, for inputs that fill their last block
\* to the last byte and for inputs that go one byte past a full block.
C3_ZlibRoundTrip ==
  ZlibReturned =>
    LET r == Inflate(Bytes(out))
    IN /\ r.ok
       /\ r.data = Bytes(input)
       /\ Bytes(out) = zlib_format(Bytes(input))

\* a returned zlib_format for an input of one byte more than a full block
C3_Witness == ZlibReturned /\ Len(Bytes(input)) = BlockMax + 1

\* the length of the empty input and of an input that is exactly one block
C3_WitnessEdges ==
  ZlibReturned /\ Len(Bytes(input)) \in {0, BlockMax}

\* the number of stored blocks for n bytes: n / 65535 rounded up
BlockCount(n) == (n + BlockMax - 1) \div BlockMax

\* C13: for the empty input the output is 78 9C 03 00 00 00 00 01.  For an
\* input of n > 0 bytes the output is n + 5 * ceil(n / 65535) + 6 bytes: the
\* header 08 1D; then ceil(n / 65535) stored blocks, each but the last of
\* 65535 bytes and the last of the 1..65535 bytes that remain, each made of
\* the control byte (1 for the last block, 0 for the others), the block's
\* length as 2 bytes little-endian, the 16-bit complement of the length as
\* 2 bytes little-endian, and the block's bytes of the input; then the
\* Adler-32 of the whole input as 4 bytes big-endian.
C13_ZlibStreamLayout ==
  ZlibReturned =>
    LET d == Bytes(input)
        z == Bytes(out)
        n == Len(d)
        k == BlockCount(n)
        sum == adler32_slice(d)
        BlockAt(i) == 3 + (i - 1) * (BlockMax + 5)
        BlockLen(i) == IF i < k THEN BlockMax ELSE n - (k - 1) * BlockMax
    IN IF n = 0
         THEN z = <<120, 156, 3, 0, 0, 0, 0, 1>>
         ELSE /\ Len(z) = n + 5 * k + 6
              /\ z[1] = 8 /\ z[2] = 29
              /\ \A i \in 1..k :
                   LET pos == BlockAt(i)
                       len == BlockLen(i)
                   IN /\ len >= 1 /\ len <= 65535
                      /\ z[pos] = (IF i = k THEN 1 ELSE 0)
                      /\ z[pos + 1] + 256 * z[pos + 2] = len
                      /\ z[pos + 3] + 256 * z[pos + 4] = 65535 - len
                      /\ SubSeq(z, pos + 5, pos + 4 + len)
                           = SubSeq(d, (i - 1) * BlockMax + 1, (i - 1) * BlockMax + len)
              /\ 256 * z[Len(z) - 3] + z[Len(z) - 2] = sum[1]
              /\ 256 * z[Len(z) - 1] + z[Len(z)] = sum[2]

\* a returned zlib_format for an input of one byte more than MaxBlocks full
\* blocks: the last block carries one byte
C13_Witness ==
  /\ ZlibReturned
  /\ Len(Bytes(input)) = MaxBlocks * BlockMax + 1
  /\ Len(Bytes(out)) = MaxBlocks * BlockMax + 1 + 5 * (MaxBlocks + 1) + 6

\* a returned zlib_format for the empty input
C13_WitnessEmpty ==
  ZlibReturned /\ input = <<>> /\ Len(Bytes(out)) = 8

\* C4: make_png's output is the signature and then the chunks IHDR, IDAT
\* and IEND and nothing else; each length field is the payload's length
\* and each CRC is that of the type tag followed by the payload; the IHDR
\* payload is width C, height R, then 8, 2, 0, 0, 0; the IEND payload is
\* empty.
C4_PngChunkLayout ==
  PngReturned =>
    LET png == Bytes(out)
        chunks == ReadChunks(png, 9)
    IN /\ SubSeq(png, 1, 8) = PngSignature
       /\ Len(chunks) = 3
       /\ <<chunks[1].type, chunks[2].type, chunks[3].type>> = <<IHDR, IDAT, IEND>>
       /\ \A i \in 1..3 : chunks[i].crc_ok
       /\ chunks[1].payload
            = U32BeBytes(U32(C)) \o U32BeBytes(U32(R)) \o <<8, 2, 0, 0, 0>>
       /\ Len(chunks[1].payload) = 13
       /\ chunks[2].payload = zlib_format(uncompressed_pixel_data(pixels, R, C))
       /\ chunks[3].payload = <<>>
       /\ Len(png) = 8 + 3 * 12 + 13 + Len(chunks[2].payload)

\* a returned make_png whose IDAT payload is longer than one byte fits
C4_Witness ==
  /\ PngReturned
  /\ R = MaxDim /\ C = 2
  /\ Len(Bytes(out)) > 8 + 3 * 12 + 13 + 20

(***************************************************************************)
(* The three loops together.  A drawing loop that can take a step takes    *)
(* it; of the chunking loop the properties ask no more than its steps.     *)
(***************************************************************************)
InitLoops == InitLine \/ InitEllipse \/ InitZlib

NextLoops == NextLine \/ NextEllipse \/ NextZlib

LiveLoops ==
  InitLoops /\ [][NextLoops]_vars /\ WF_vars(NextLine \/ NextEllipse)

(***************************************************************************)
(* Properties of draw_ellipse and of the termination of the loops.         *)
(***************************************************************************)
EllipseReturned == prog = "ellipse" /\ pc = "ret"

\* the absolute value
Abs(n) == IF n < 0 THEN -n ELSE n

\* the offsets from args.center of the grid cells that hold the color
PaintedOffsets ==
  {<<c.x - args.center.x, c.y - args.center.y>> : c \in CellsOf(args.color)}

\* the length of a Vec
VecLen(v) == IF v = <<>> THEN 0 ELSE 256 * (Len(v) - 1) + Len(v[Len(v)])

\* what zlib_format has left to do: the bytes of data not yet split off,
\* and the steps around the loop
ZlibLeft ==
  VecLen(data) + (IF pc = "call_zlib" THEN 2 ELSE IF pc = "zlib_loop" THEN 1 ELSE 0)

\* C6: draw_line with in-bounds start and end and draw_ellipse come to
\* their return; zlib_format is either returned or at a point where its
\* next step is defined, and each of its steps lowers the natural number
\* ZlibLeft, so it returns after at most that many steps; and an ellipse
\* with a = b = 0 asks for and paints no cell but the center, one with
\* a = 0 only cells of the center column within b rows of the center, one
\* with b = 0 only cells of the center row within a columns of the center.
C6_LoopsTerminate ==
  /\ <>(pc = "ret" \/ prog = "zlib" \/ (prog = "line" /\ ~LineInBounds))
  /\ [](prog = "zlib" => pc \in {"call_zlib", "zlib_loop", "ret"} /\ ZlibLeft >= 0)
  /\ [][prog = "zlib" => ZlibLeft' < ZlibLeft]_vars
  /\ [](EllipseReturned =>
          /\ PaintedOffsets \subseteq drawn
          /\ args.a = 0 => \A o \in drawn : o[1] = 0 /\ Abs(o[2]) <= args.b
          /\ args.b = 0 => \A o \in drawn : o[2] = 0 /\ Abs(o[1]) <= args.a)

\* a returned draw_ellipse with a = 0 that went through the flat-ellipse
\* loop and painted the cells above and below the center
C6_Witness ==
  /\ EllipseReturned
  /\ args.a = 0 /\ args.b = 2
  /\ drawn = {<<0, 0>>, <<0, 1>>, <<0, -1>>, <<0, 2>>, <<0, -2>>}
  /\ Cardinality(CellsOf(args.color)) >= 3

\* a returned draw_ellipse with b = 0
C6_WitnessFlatRow ==
  /\ EllipseReturned
  /\ args.a = 2 /\ args.b = 0
  /\ drawn = {<<0, 0>>, <<1, 0>>, <<-1, 0>>, <<2, 0>>, <<-2, 0>>}

AllQuadrants == \A i \in 1..4 : args.draw_quadrants[i]

\* C9: with all four quadrants drawn and a = b, the offsets from the
\* center that draw_ellipse asks for, before any is dropped for being
\* outside the grid, are the same after a quarter turn about the center:
\* (dx, dy) is among them exactly when (-dy, dx) is.
C9_CircleQuarterTurn ==
  (EllipseReturned /\ AllQuadrants /\ args.a = args.b) =>
    \A dx \in (-MaxRadius)..MaxRadius, dy \in (-MaxRadius)..MaxRadius :
      <<dx, dy>> \in drawn <=> <<-dy, dx>> \in drawn

\* a returned circle of the largest radius, with cells off both axes
C9_Witness ==
  /\ EllipseReturned /\ AllQuadrants
  /\ args.a = MaxRadius /\ args.b = MaxRadius
  /\ \E o \in drawn : o[1] /= 0 /\ o[2] /= 0 /\ Abs(o[1]) /= Abs(o[2])
  /\ \A o \in drawn : Abs(o[1]) <= MaxRadius /\ Abs(o[2]) <= MaxRadius

\* the cells of the grid that lie at an offset of `drawn` from the center:
\* a center coordinate at usize::MAX has no cell of the grid at any offset a
\* radius can reach, the offsets above it passing usize::MAX
CandidatesInGrid ==
  {c \in [x : 0..(C - 1), y : 0..(R - 1)] :
     /\ args.center.x >= 0 /\ args.center.y >= 0
     /\ <<c.x - args.center.x, c.y - args.center.y>> \in drawn}

\* C12: draw_ellipse never panics and never indexes a cell outside the
\* grid, wherever the center lies; the grid keeps its R rows of C cells;
\* the cells that hold the color are exactly the cells of the grid among the
\* candidates of the requested quadrants, so that every candidate in the
\* grid is painted and a candidate with a coordinate below zero, past
\* usize::MAX, or not below C or R changes nothing; every other cell keeps the
\* background.
C12_EllipseClips ==
  prog = "ellipse" =>
    /\ pc /= "panic"
    /\ DOMAIN pixels = 0..(R - 1)
    /\ \A y \in 0..(R - 1) : DOMAIN pixels[y] = 0..(C - 1)
    /\ CellsOf(args.color) = CandidatesInGrid
    /\ \A y \in 0..(R - 1), x \in 0..(C - 1) :
         pixels[y][x] \in {args.color, BgColor}

\* a returned ellipse about the cell just below the left end of the last
\* row: candidates left of column 0 (checked_sub underflow) and in rows
\* R and beyond are dropped, and candidates in the grid are painted
C12_Witness ==
  /\ EllipseReturned /\ AllQuadrants
  /\ args.center = Cell(0, R) /\ args.a = 2 /\ args.b = 2
  /\ \E o \in drawn : o[1] < 0
  /\ \E o \in drawn : o[2] > 0
  /\ CellsOf(args.color) /= {}
  /\ Cardinality(CellsOf(args.color)) < Cardinality(drawn)

\* a returned ellipse about a center in column usize::MAX: the candidates to
\* its right overflow in checked_add, the others lie far right of the grid,
\* and no cell is painted
C12_WitnessOverflow ==
  /\ EllipseReturned /\ AllQuadrants
  /\ args.center = Cell(-1, 1) /\ args.a = 2 /\ args.b = 1
  /\ <<2, 0>> \in drawn /\ <<-2, 0>> \in drawn /\ <<0, 1>> \in drawn
  /\ CellsOf(args.color) = {}

(***************************************************************************)
(* Properties of draw_gradient.                                            *)
(***************************************************************************)
GradientReturned == prog = "gradient" /\ pc = "ret"

\* C14: after draw_gradient(start, end), whatever the grid held before,
\* every cell (x, y) holds the color whose channels are
\* floor((start_channel * blend + end_channel * (100 - blend)) / 100) with
\* blend = floor(100 * (x + y) / (C + R)); blend lies in 0..99 and each
\* channel so computed lies in 0..255, so that the cell holds the computed
\* value itself and not a remainder of it.
C14_GradientFormula ==
  GradientReturned =>
    /\ DOMAIN pixels = 0..(R - 1)
    /\ \A y \in 0..(R - 1) :
         /\ DOMAIN pixels[y] = 0..(C - 1)
         /\ \A x \in 0..(C - 1) :
              LET blend == (100 * (x + y)) \div (C + R)
                  red == (args.start.red * blend + args.end.red * (100 - blend)) \div 100
                  green == (args.start.green * blend + args.end.green * (100 - blend)) \div 100
                  blue == (args.start.blue * blend + args.end.blue * (100 - blend)) \div 100
              IN /\ blend \in 0..99
                 /\ red \in 0..255 /\ green \in 0..255 /\ blue \in 0..255
                 /\ pixels[y][x] = [red |-> red, green |-> green, blue |-> blue]

\* a returned draw_gradient from red 255 to red 0 on a grid of MaxDim rows
\* and columns: the first cell holds the end color, the last cell a blend
\* of the two, and neither is what the cell held before
C14_Witness ==
  /\ GradientReturned
  /\ R = MaxDim /\ C = MaxDim
  /\ args.start.red = 255 /\ args.end.red = 0
  /\ pixels[0][0] = args.end
  /\ pixels[R - 1][C - 1].red \notin {0, 255}
  /\ pixels[0][0] /= PatternGrid(R, C, 255)[0][0]
  /\ pixels[R - 1][C - 1] /= PatternGrid(R, C, 255)[R - 1][C - 1]

\* a returned draw_gradient on the 32 by 32 grid from white to black: the
\* last cell has the blend 96
C14_WitnessDeployed ==
  /\ GradientReturned
  /\ R = 32 /\ C = 32
  /\ args.start = Color(255, 255, 255) /\ args.end = Color(0, 0, 0)
  /\ pixels[31][31] = Color(244, 244, 244)
  /\ pixels[0][0] = Color(0, 0, 0)

(***************************************************************************)
(* Properties of the seed.  FNV-1a is computed a second way, on a 64-bit   *)
(* state held as four 16-bit limbs, least significant first: the product   *)
(* by the prime 1099511628211 = 2^40 + 435 is the state times 435 plus the *)
(* state shifted left by 40 bits, both cut to 64 bits.                     *)
(***************************************************************************)
\* 14695981039346656037 = 0xCBF2 9CE4 8422 2325
Fnv1aBasis == <<8997, 33826, 40164, 52210>>

\* the exclusive or of two naturals, bit by bit
RECURSIVE BitXor(_, _)
BitXor(m, n) ==
  IF m = 0 /\ n = 0 THEN 0
  ELSE ((m + n) % 2) + 2 * BitXor(m \div 2, n \div 2)

\* v * k modulo 2^64, for k below 2^15
LimbsTimes(v, k) ==
  LET t1 == v[1] * k
      t2 == v[2] * k + t1 \div 65536
      t3 == v[3] * k + t2 \div 65536
      t4 == v[4] * k + t3 \div 65536
  IN <<t1 % 65536, t2 % 65536, t3 % 65536, t4 % 65536>>

\* v + w modulo 2^64
LimbsPlus(v, w) ==
  LET t1 == v[1] + w[1]
      t2 == v[2] + w[2] + t1 \div 65536
      t3 == v[3] + w[3] + t2 \div 65536
      t4 == v[4] + w[4] + t3 \div 65536
  IN <<t1 % 65536, t2 % 65536, t3 % 65536, t4 % 65536>>

\* v * 2^40 modulo 2^64: times 2^8, then up by two limbs
LimbsShift40(v) ==
  LET w == LimbsTimes(v, 256)
  IN <<0, 0, w[1], w[2]>>

\* ((state XOR byte) * 1099511628211) mod 2^64
Fnv1aStep(state, byte) ==
  LET x == <<BitXor(state[1], byte), state[2], state[3], state[4]>>
  IN LimbsPlus(LimbsTimes(x, 435), LimbsShift40(x))

RECURSIVE Fnv1aFrom(_, _, _)
Fnv1aFrom(state, bytes, i) ==
  IF i > Len(bytes) THEN state
  ELSE LET next == Fnv1aStep(state, bytes[i])
       IN IF next[1] >= 0 THEN Fnv1aFrom(next, bytes, i + 1) ELSE next

\* the FNV-1a hash of a byte string
Fnv1a(bytes) == Fnv1aFrom(Fnv1aBasis, bytes, 1)

\* the four 16-bit limbs of a hasher state
LimbsOf(h) ==
  <<h[1] + 256 * h[2], h[3] + 256 * h[4], h[5] + 256 * h[6], h[7] + 256 * h[8]>>

\* the 32 little-endian bytes of a token id below 2^31
TokenIdBytes(id) ==
  [i \in 1..32 |-> IF i = 1 THEN id % 256
                   ELSE IF i = 2 THEN (id \div 256) % 256
                   ELSE IF i = 3 THEN (id \div 65536) % 256
                   ELSE IF i = 4 THEN id \div 16777216
                   ELSE 0]

\* the seed with the two updates in the other order, address first
SeedAddressFirst(addr, id) == update(update(FnvDefault, addr), as_le_slice(id))

\* among the inputs of the specification there is a pair for which the
\* order of the two updates matters
SwapChangesSeed ==
  \E addr \in SeedAddresses, id \in SeedTokenIds :
    SeedAddressFirst(addr, id) /= Seed(addr, id)

SeedReturned == prog = "seed" /\ pc = "ret"

\* C15: the hasher starts at 14695981039346656037; after the first update
\* it holds the FNV-1a hash of the token id's 32 little-endian bytes; the
\* seed is the FNV-1a hash, each byte doing
\* state = ((state XOR byte) * 1099511628211) mod 2^64, of those bytes
\* followed by the bytes of the address; the two successive updates give
\* what one update over the concatenation gives; and for some address and
\* token id the updates in the other order give another seed.
C15_SeedIsFnv1a ==
  prog = "seed" =>
    /\ pc = "seed_token_id" => LimbsOf(hasher) = Fnv1aBasis
    /\ pc = "seed_address" => LimbsOf(hasher) = Fnv1a(TokenIdBytes(token_id))
    /\ pc = "ret" =>
         /\ LimbsOf(hasher) = Fnv1a(TokenIdBytes(token_id) \o address)
         /\ hasher = update(FnvDefault, as_le_slice(token_id) \o address)
         /\ hasher = Seed(address, token_id)
    /\ SwapChangesSeed

\* a returned seed for a token id of several non-zero bytes and an address
\* of differing bytes, which the other order of the updates would change
C15_Witness ==
  /\ SeedReturned
  /\ token_id = 2147483647
  /\ address = [i \in 1..20 |-> (i * 11) % 256]
  /\ hasher /= FnvDefault
  /\ SeedAddressFirst(address, token_id) /= hasher

\* a returned seed for the token id 0 and the address of 20 zero bytes, 52
\* zero bytes in either order: there the order changes nothing
C15_WitnessSameEitherWay ==
  /\ SeedReturned
  /\ token_id = 0
  /\ address = [i \in 1..20 |-> 0]
  /\ SeedAddressFirst(address, token_id) = hasher

(***************************************************************************)
(* Properties of generate_nft and token_uri.                               *)
(***************************************************************************)
\* C7: two calls with the same address and token id give the same grid,
\* cell for cell, and the same PNG bytes, whatever was generated in
\* between; and the grid a call starts to draw on is a new one, every
\* cell holding the background color.
C7_NftDeterministic ==
  prog = "nft" =>
    /\ \A i \in 1..Len(calls), j \in 1..Len(calls) :
         (calls[i].address = calls[j].address /\ calls[i].token_id = calls[j].token_id)
           => (calls[i].pixels = calls[j].pixels /\ calls[i].png = calls[j].png)
    /\ pc = "nft_next" => pixels = NewPixels(32, 32, BgColor)

\* two finished calls with the same arguments, each with a PNG
C7_Witness ==
  /\ prog = "nft" /\ Len(calls) = 2
  /\ calls[1].address = calls[2].address /\ calls[1].token_id = calls[2].token_id
  /\ Len(calls[1].png) > 3 * 32 * 32

\* two finished calls with different arguments and different images
C7_WitnessDistinct ==
  /\ prog = "nft" /\ Len(calls) = 2
  /\ calls[1].token_id /= calls[2].token_id
  /\ calls[1].pixels /= calls[2].pixels

\* token_uri has the image of generate_nft and its PNG
NftEncoded == prog = "nft" /\ pc = "png_ret"

\* the cells generate_nft paints with the foreground color: the two
\* vertical lines and the bottom half of the ellipse
NftForeground ==
  {Cell(4, y) : y \in 4..6} \cup {Cell(10, y) : y \in 4..6}
  \cup {Cell(4, 9), Cell(10, 9), Cell(4, 10), Cell(10, 10), Cell(5, 11),
        Cell(9, 11), Cell(6, 12), Cell(7, 12), Cell(8, 12)}

\* C8 as the specification states it: the grid is 16x16, pixels (4,4) and
\* (4,6) hold the foreground color, pixel (0,0) holds the background color
\* 0xE3066E, and the PNG decodes to the grid.
C8_ScenarioAsStated ==
  NftEncoded =>
    /\ R = 16 /\ C = 16
    /\ pixels[4][4] = fg_color /\ pixels[6][4] = fg_color
    /\ pixels[0][0] = Color(227, 6, 110)
    /\ PngDecode(Bytes(out)).pixels = pixels

\* C8, amended: the grid is 32x32, pixels (4,4) and (4,6) hold the
\* foreground color, pixel (0,0) holds (0, 0, 255), the gradient's color
\* there, every cell off the two lines and the half ellipse holds the
\* gradient and none of them the background color 0xE3066E, and the PNG
\* decodes to the grid.
C8_ScenarioGradient ==
  NftEncoded =>
    /\ R = 32 /\ C = 32
    /\ pixels[4][4] = fg_color /\ pixels[6][4] = fg_color
    /\ pixels[0][0] = Color(0, 0, 255)
    /\ \A x \in 0..31, y \in 0..31 :
         pixels[y][x] = IF Cell(x, y) \in NftForeground THEN fg_color
                        ELSE draw_gradient(32, 32, Color(255, 0, 0), Color(0, 0, 255))[y][x]
    /\ \A x \in 0..31, y \in 0..31 :
         Cell(x, y) \notin NftForeground => pixels[y][x] /= Color(227, 6, 110)
    /\ LET img == PngDecode(Bytes(out))
       IN img.ok /\ img.width = 32 /\ img.height = 32 /\ img.pixels = pixels

\* an encoded image whose foreground is not the background color
C8_Witness ==
  /\ NftEncoded
  /\ fg_color = InkColor
  /\ pixels[4][4] = InkColor /\ pixels[12][7] = InkColor
  /\ pixels[31][31].red > 0

(***************************************************************************)
(* Properties of the ERC-721 bookkeeping.                                  *)
(***************************************************************************)
\* C10: after the calls, balance_of(a) is the number of token ids whose
\* owner is a, for every account a.
C10_BalanceCountsOwned ==
  prog = "erc" => \A a \in Accounts : balance_of(a) = Cardinality(OwnedBy(a))

\* what the call transfer_from(from, to, t) by `sender` has to satisfy, the
\* unprimed variables being the storage before the call
TransferFromChecked(sender, from, to, t) ==
  LET exists == owners[t] /= 0
      is_owner == owners[t] = from
      authorized == \/ sender = owners[t]
                    \/ approved[t] = sender
                    \/ approved_for_all[owners[t]][sender]
      allowed == to /= 0 /\ exists /\ is_owner /\ authorized
      error == IF to = 0 THEN "TransferToZero"
               ELSE IF ~exists THEN "InvalidTokenId"
               ELSE IF ~is_owner THEN "NotOwner"
               ELSE "NotApproved"
  IN /\ last'.result = "Ok" =>
          /\ allowed
          /\ owners' = [owners EXCEPT ![t] = to]
          /\ approved' = [approved EXCEPT ![t] = 0]
          /\ approved_for_all' = approved_for_all
     /\ ~allowed =>
          /\ last'.result = error
          /\ UNCHANGED <<owners, approved, balance, approved_for_all>>

\* C11: every call of transfer_from that succeeds has a non-zero `to`, an
\* existing token, `from` its owner and a caller who is the owner, the
\* token's approved address or an operator approved for all, and it makes
\* `to` the owner and clears the token's approval; every call that lacks
\* one of these returns TransferToZero, InvalidTokenId, NotOwner or
\* NotApproved, for the first that is lacking, and changes no owner, no
\* balance and no approval.
C11_TransferFromChecks ==
  [][last'.fn = "transfer_from" =>
       \A sender \in Accounts, from \in Addresses, to \in Addresses, t \in TokenIds :
         transfer_from(sender, from, to, t) => TransferFromChecked(sender, from, to, t)]_vars

\* a transfer of token 1 to account 3 that succeeded as the second call,
\* after an approval of account 2, which is not the owner
C11_Witness ==
  /\ prog = "erc"
  /\ last = [fn |-> "transfer_from", result |-> "Ok", seq |-> 2]
  /\ owners[1] = 3 /\ approved[1] = 0
  /\ approved_for_all[1][2]

\* a transfer refused for want of an approval
C11_WitnessRefused ==
  /\ prog = "erc"
  /\ last.fn = "transfer_from" /\ last.result = "NotApproved"

=============================================================================
